---- MODULE Spec2Model ----
(***************************************************************************)
(* Model of src/app.py: the Streamlit recipe-evaluation page.              *)
(*                                                                         *)
(* The script is re-run from its first line on every widget event.  One    *)
(* action of the model is one such script run together with the run that   *)
(* st.rerun() starts.  save_to_google_sheet is the one handler split in    *)
(* two steps: conn.read and conn.update are two separate remote calls and  *)
(* other sessions run between them.                                        *)
(*                                                                         *)
(* Two specifications share the variables:                                 *)
(*   SpecLoad  the runs of load_source_data over the life of a deployment  *)
(*             (cache cleared, server restarted, data file replaced);      *)
(*   Spec      the sessions of one deployment working on the shared sheet. *)
(***************************************************************************)
EXTENDS Integers, Sequences, FiniteSets, TLC

VARIABLES
    dataFile,       \* DATA_FILE on disk: [exists, rows]
    mappingFile,    \* mapping_reference.csv on disk: [exists, readable, table]
    rng,            \* state of numpy's global generator: [seed, pos]
    cache,          \* st.cache_data entry of load_source_data: [cached, value]
    run,            \* what the latest execution of load_source_data's body did
    runs,           \* number of executions of load_source_data's body
    writes,         \* number of write_csv calls on mapping_reference.csv
    sheet,          \* the Google Sheet: [exists, cols, rows]
    clock,          \* pd.Timestamp.now(), as the number of records built so far
    session_state,  \* st.session_state of each browser session
    pc,             \* per session: "idle", or "saving" between conn.read and conn.update
    df_existing,    \* per session: the table read by save_to_google_sheet (line 111)
    new_record,     \* per session: the record being saved
    view            \* per session: what the latest script run displayed

loadVars == <<dataFile, mappingFile, rng, cache, run, runs, writes>>
uiVars   == <<sheet, clock, session_state, pc, df_existing, new_record, view>>
vars     == <<dataFile, mappingFile, rng, cache, run, runs, writes,
              sheet, clock, session_state, pc, df_existing, new_record, view>>

(***************************************************************************)
(* Bounds of the model.                                                    *)
(***************************************************************************)
MaxN == 2          \* longest data file, in rows
MaxRuns == 3       \* executions of load_source_data's body in one behaviour
MaxSubmits == 2    \* records built in one behaviour

(***************************************************************************)
(* Python values.  A value carries its type, as isinstance sees it.        *)
(***************************************************************************)
PyNone == [t |-> "NoneType"]
PyStr(s) == [t |-> "str", s |-> s]
PyDict(d) == [t |-> "dict", d |-> d]
PyList(l) == [t |-> "list", l |-> l]
PyInt(i) == [t |-> "int", i |-> i]

\* str(val), for the values a CSV cell can hold
str(val) ==
    CASE val.t = "str" -> val.s
      [] val.t = "NoneType" -> "None"
      [] OTHER -> "<object>"

JsonCarbonaraCE == "{\"ingredients\": [\"egg\", \"cream\"], \"instructions\": [\"mix\"]}"
JsonCarbonaraMixed == "{\"ingredients\": [\"egg\", \"guanciale\"], \"instructions\": [\"fry\", \"mix\"]}"
JsonRisotto == "{\"ingredients\": [\"rice\"], \"instructions\": [\"stir\"]}"
JsonNumber == "12"
NotJson == "not json"

\* json.loads on a str: [ok, value]; ok = FALSE stands for JSONDecodeError
json_loads(s) ==
    CASE s = JsonCarbonaraCE ->
            [ok |-> TRUE, value |-> PyDict([ingredients |-> <<"egg", "cream">>,
                                            instructions |-> <<"mix">>])]
      [] s = JsonCarbonaraMixed ->
            [ok |-> TRUE, value |-> PyDict([ingredients |-> <<"egg", "guanciale">>,
                                            instructions |-> <<"fry", "mix">>])]
      [] s = JsonRisotto ->
            [ok |-> TRUE, value |-> PyDict([ingredients |-> <<"rice">>,
                                            instructions |-> <<"stir">>])]
      [] s = JsonNumber -> [ok |-> TRUE, value |-> PyInt(12)]
      [] OTHER -> [ok |-> FALSE, value |-> PyNone]

\* parse (lines 69-75): structured values pass, strings are decoded, and every
\* exception (JSONDecodeError, TypeError on None) gives the placeholder
parse(val) ==
    IF val.t \in {"dict", "list"}
    THEN val
    ELSE IF val.t = "str" /\ json_loads(val.s).ok
         THEN json_loads(val.s).value
         ELSE PyDict([ingredients |-> <<>>, instructions |-> <<str(val)>>])

(***************************************************************************)
(* The data file.  A row is (title, output_Qwen3-4B-Cross-Entropy,         *)
(* output_Qwen3-4B-Mixed), the three columns line 63 selects.              *)
(***************************************************************************)
Rows ==
    { [title |-> "Carbonara", ce |-> PyStr(JsonCarbonaraCE), mixed |-> PyStr(JsonCarbonaraMixed)],
      [title |-> "Risotto", ce |-> PyStr(NotJson), mixed |-> PyStr(JsonRisotto)] }

RECURSIVE SeqsUpTo(_, _)
SeqsUpTo(S, n) ==
    IF n = 0 THEN { <<>> }
    ELSE LET shorter == SeqsUpTo(S, n - 1)
         IN shorter \cup { Append(q, x) : q \in { p \in shorter : Len(p) = n - 1 }, x \in S }

DataFiles ==
    { [exists |-> FALSE, rows |-> <<>>] }
        \cup { [exists |-> TRUE, rows |-> r] : r \in SeqsUpTo(Rows, MaxN) }

(***************************************************************************)
(* numpy's global generator.  np.random.seed(s) restarts the Mersenne      *)
(* Twister stream of s; rand(n) takes the next n doubles of the stream.    *)
(* Doubles are in units of 1/10000.  A fresh process is seeded from OS     *)
(* entropy: any of EntropySeeds.                                           *)
(***************************************************************************)
Seed == 42
Half == 5000
EntropySeeds == {0, 1}

Stream(seed) ==
    CASE seed = 42 -> <<3745, 9507, 7319, 5986, 1560, 1559, 580, 8661,
                        6011, 7080, 205, 9699, 8324, 2123, 1818, 1834>>
      [] seed = 0 ->  <<5488, 7151, 6027, 5448, 4236, 6458, 4375, 8917,
                        9636, 3834, 7917, 5288, 5680, 9255, 710, 871>>
      [] OTHER ->     <<4170, 7203, 1, 3023, 1467, 923, 1862, 3455,
                        3967, 5388, 4191, 6852, 2044, 8781, 273, 6704>>

np_random_seed_skipped(state, seed) == state

np_random_seed(state, seed) == [seed |-> seed, pos |-> 0]

np_random_rand(state, n) ==
    [values |-> [i \in 1..n |-> Stream(state.seed)[state.pos + i]],
     state  |-> [state EXCEPT !.pos = @ + n]]

(***************************************************************************)
(* load_source_data (lines 45-88).                                         *)
(***************************************************************************)
NoMapping == [exists |-> FALSE, readable |-> FALSE, table |-> <<>>]
CorruptMapping == [exists |-> TRUE, readable |-> FALSE, table |-> <<>>]
MappingWith(table) == [exists |-> TRUE, readable |-> TRUE, table |-> table]

\* line 52: is_mixed_A = np.random.rand(len(df)) < 0.5
is_mixed_A(values) == [i \in DOMAIN values |-> values[i] < Half]

\* lines 56-58
mapping(mixedA) ==
    [i \in DOMAIN mixedA |-> [id |-> i - 1, Mixed_is |-> IF mixedA[i] THEN "A" ELSE "B"]]

\* line 55: the existence check that guards the write
must_write_mapping_always(file) == TRUE

must_write_mapping(file) == ~file.exists

\* lines 61-87
prepared_data(rows, mixedA) ==
    [i \in DOMAIN rows |->
        LET ce == parse(rows[i].ce)
            mixed_out == parse(rows[i].mixed)
        IN [ID |-> i - 1,
            title |-> rows[i].title,
            A |-> IF mixedA[i] THEN mixed_out ELSE ce,
            B |-> IF mixedA[i] THEN ce ELSE mixed_out]]

NoRun ==
    [ran |-> FALSE, df |-> <<>>, existed |-> FALSE, readable |-> FALSE,
     rng_calls |-> 0, mixedA |-> <<>>, wrote |-> FALSE]

\* The body of load_source_data: the value returned and the effects
load_source_data(file, mfile, state) ==
    IF ~file.exists
    THEN [ret |-> <<>>, mappingFile |-> mfile, rng |-> state,
          run |-> [NoRun EXCEPT !.ran = TRUE, !.existed = mfile.exists,
                                !.readable = mfile.readable]]
    ELSE LET n == Len(file.rows)
             seeded == np_random_seed(state, Seed)
             drawn == np_random_rand(seeded, n)
             mixedA == is_mixed_A(drawn.values)
             wr == must_write_mapping(mfile)
         IN [ret |-> prepared_data(file.rows, mixedA),
             mappingFile |-> IF wr THEN MappingWith(mapping(mixedA)) ELSE mfile,
             rng |-> drawn.state,
             run |-> [ran |-> TRUE, df |-> file.rows, existed |-> mfile.exists,
                      readable |-> mfile.readable, rng_calls |-> 2,
                      mixedA |-> mixedA, wrote |-> wr]]

\* line 91 under @st.cache_data: the body runs only when nothing is cached
CallLoadSourceData ==
    IF cache.cached
    THEN UNCHANGED loadVars
    ELSE LET r == load_source_data(dataFile, mappingFile, rng)
         IN /\ runs < MaxRuns
            /\ cache' = [cached |-> TRUE, value |-> r.ret]
            /\ mappingFile' = r.mappingFile
            /\ rng' = r.rng
            /\ run' = r.run
            /\ runs' = runs + 1
            /\ writes' = writes + (IF r.run.wrote THEN 1 ELSE 0)
            /\ UNCHANGED dataFile

(***************************************************************************)
(* The Google Sheet behind conn (line 94) and the DataFrames read from it. *)
(* A DataFrame is [cols, rows]; a row is a function from cols to cells.    *)
(***************************************************************************)
NaN == [t |-> "float", nan |-> TRUE]

RecordCols ==
    {"annotator", "sample_id", "recipe_title", "pref_ingredients", "pref_numbers",
     "pref_procedure", "pref_overall", "A_cookable", "A_trust", "A_errors",
     "B_cookable", "B_trust", "B_errors", "notes", "timestamp"}

DataFrame(cols, rows) == [cols |-> cols, rows |-> rows]

\* DataFrame.empty: no rows or no columns
empty(df) == Len(df.rows) = 0 \/ df.cols = {}

\* a row of one frame laid out on the columns of the concatenation
reindex(row, cols) == [c \in cols |-> IF c \in DOMAIN row THEN row[c] ELSE NaN]

\* pd.concat([a, b], ignore_index=True): union of the columns, a's rows then b's
pd_concat_dedup(a, b) ==
    LET cols == a.cols \cup b.cols
        key(r) == <<r["annotator"], r["sample_id"]>>
        old == [i \in 1..Len(a.rows) |-> reindex(a.rows[i], cols)]
        new == [i \in 1..Len(b.rows) |-> reindex(b.rows[i], cols)]
    IN DataFrame(cols,
           SelectSeq(old, LAMBDA r : \A i \in 1..Len(new) : key(r) # key(new[i])) \o new)

pd_concat(a, b) ==
    LET cols == a.cols \cup b.cols
    IN DataFrame(cols,
           [i \in 1..Len(a.rows) |-> reindex(a.rows[i], cols)]
               \o [i \in 1..Len(b.rows) |-> reindex(b.rows[i], cols)])

\* a cell as the sheet keeps it: an empty string is an empty cell, read back as NaN
cell(v) == IF v = PyStr("") THEN NaN ELSE v

\* conn.update(data=df), line 120: the whole worksheet is replaced by df
conn_append(current, df) ==
    [exists |-> TRUE,
     cols |-> df.cols,
     rows |-> [i \in 1..Len(current.rows) |-> reindex(current.rows[i], df.cols)]
                 \o <<[c \in df.cols |-> cell(df.rows[Len(df.rows)][c])]>>]

conn_update(current, df) ==
    [exists |-> TRUE,
     cols |-> df.cols,
     rows |-> [i \in 1..Len(df.rows) |-> [c \in df.cols |-> cell(df.rows[i][c])]]]

\* conn.read(ttl=0), lines 99-100, on a worksheet that exists
get_google_sheet_data(sh) == DataFrame(sh.cols, sh.rows)

\* lines 130-138
completed_ids_of_all_users(df_results, current_user) ==
    IF ~empty(df_results)
       /\ "sample_id" \in df_results.cols
       /\ "annotator" \in df_results.cols
    THEN { df_results.rows[i]["sample_id"] : i \in 1..Len(df_results.rows) }
    ELSE {}

completed_ids(df_results, current_user) ==
    IF ~empty(df_results)
       /\ "sample_id" \in df_results.cols
       /\ "annotator" \in df_results.cols
    THEN LET user_rows == SelectSeq(df_results.rows,
                                    LAMBDA r : r["annotator"] = PyStr(current_user))
         IN { user_rows[i]["sample_id"] : i \in 1..Len(user_rows) }
    ELSE {}

(***************************************************************************)
(* Sessions and st.session_state, a dictionary: a function on the keys set.*)
(***************************************************************************)
ANNOTATORS == <<"Chef_Mario", "Chef_Luigi", "Chef_Peach">>
Roster == { ANNOTATORS[i] : i \in 1..Len(ANNOTATORS) }
\* the names the sessions of Spec pick in the login selectbox
Selected == {"Chef_Mario", "Chef_Luigi"}
Sessions == {"s1", "s2"}

NoState == [k \in {} |-> PyNone]
has(st, k) == k \in DOMAIN st
set(st, k, v) == [x \in DOMAIN st \cup {k} |-> IF x = k THEN v ELSE st[x]]
del(st, k) == [x \in DOMAIN st \ {k} |-> st[x]]

\* lines 144-146
go_next_unbounded(st, data) == set(st, "current_idx", st["current_idx"] + 1)

go_next_wrapping(st, data) ==
    set(st, "current_idx", (st["current_idx"] + 1) % Len(data))

go_next(st, data) ==
    IF st["current_idx"] < Len(data) - 1
    THEN set(st, "current_idx", st["current_idx"] + 1)
    ELSE st

(***************************************************************************)
(* The form (lines 233-294): what the annotator has filled in when the     *)
(* submit button is pressed.  A radio left untouched is None (index=None). *)
(***************************************************************************)
\* every comparison answered; tags on version A only; sliders and notes as drawn
DraftComplete ==
    [p_ing |-> PyStr("A"), p_num |-> PyStr("B"), p_proc |-> PyStr("Tie"), p_all |-> PyStr("B"),
     ac |-> "No", at |-> 3, ae |-> <<"Hallucination", "Bad Qty">>,
     bc |-> "Yes", bt |-> 3, be |-> <<>>, notes |-> ""]

PrefFields == {"p_ing", "p_num", "p_proc", "p_all"}

\* the complete draft, the drafts with the first or the last comparison left
\* out, and the draft with none answered
Drafts ==
    {DraftComplete}
        \cup { [DraftComplete EXCEPT ![f] = PyNone] : f \in {"p_ing", "p_all"} }
        \cup { [f \in DOMAIN DraftComplete |->
                   IF f \in PrefFields THEN PyNone ELSE DraftComplete[f]] }

\* truth value of a radio's return value
truthy(v) == v.t = "str" /\ v.s # ""

\* line 297: all([p_ing, p_num, p_proc, p_all])
all_filled_but_overall(d) == truthy(d.p_ing) /\ truthy(d.p_num) /\ truthy(d.p_proc)

all_filled(d) == truthy(d.p_ing) /\ truthy(d.p_num) /\ truthy(d.p_proc) /\ truthy(d.p_all)

\* ";".join(tags)
RECURSIVE join(_, _)
join(sep, tags) ==
    IF Len(tags) = 0 THEN ""
    ELSE IF Len(tags) = 1 THEN tags[1]
    ELSE tags[1] \o sep \o join(sep, Tail(tags))

\* lines 301-317
record(current_user, current_pair, d, now) ==
    [c \in RecordCols |->
        CASE c = "annotator" -> PyStr(current_user)
          [] c = "sample_id" -> PyInt(current_pair.ID)
          [] c = "recipe_title" -> PyStr(current_pair.title)
          [] c = "pref_ingredients" -> d.p_ing
          [] c = "pref_numbers" -> d.p_num
          [] c = "pref_procedure" -> d.p_proc
          [] c = "pref_overall" -> d.p_all
          [] c = "A_cookable" -> PyStr(d.ac)
          [] c = "A_trust" -> PyInt(d.at)
          [] c = "A_errors" -> PyStr(join(";", d.ae))
          [] c = "B_cookable" -> PyStr(d.bc)
          [] c = "B_trust" -> PyInt(d.bt)
          [] c = "B_errors" -> PyStr(join(";", d.be))
          [] c = "notes" -> PyStr(d.notes)
          [] OTHER -> PyInt(now)]

\* lines 112-118
df_combined(existing, rec) ==
    LET df_new == DataFrame(RecordCols, <<rec>>)
    IN IF ~empty(existing) THEN pd_concat(existing, df_new) ELSE df_new

(***************************************************************************)
(* One script run of a logged-in session with no widget pressed, from      *)
(* line 91 to the end: the new session state and what is displayed.        *)
(***************************************************************************)
View(page, completed, warning, msg) ==
    [page |-> page, completed |-> completed, warning |-> warning, msg |-> msg]

LoginView(msg) == View("login", {}, FALSE, msg)

\* line 141
with_cursor(st) == IF has(st, "current_idx") THEN st ELSE set(st, "current_idx", 0)

\* line 192: the pair at the cursor
first_pair(st, data) == data[1]

current_pair(st, data) == data[st["current_idx"] + 1]

\* line 196: sample_id in completed_ids
already_evaluated_never(sample_id, done) == FALSE

already_evaluated(sample_id, done) == PyInt(sample_id) \in done

main_run(st, data, sh, msg) ==
    IF ~sh.exists
    THEN \* conn.read raises at line 127: nothing below it runs
         [st |-> st, view |-> View("read_failed", {}, FALSE, "")]
    ELSE LET done == completed_ids(get_google_sheet_data(sh), st["annotator_name"])
             st1 == with_cursor(st)
         IN IF Len(data) = 0
            THEN \* no option to select: line 177 raises, after the sidebar head
                 [st |-> st1, view |-> View("no_data", done, FALSE, "")]
            ELSE IF Cardinality(done) > Len(data)
            THEN \* st.progress refuses a value above 1.0 (line 163)
                 [st |-> st1, view |-> View("progress_failed", done, FALSE, "")]
            ELSE IF st1["current_idx"] \notin 0..(Len(data) - 1)
            THEN \* st.selectbox refuses an index outside the options (line 177)
                 [st |-> st1, view |-> View("select_failed", done, FALSE, "")]
            ELSE [st |-> st1,
                  view |-> View("main", done,
                                already_evaluated(current_pair(st1, data).ID, done), msg)]

\* lines 183-186: the first position whose ID is not completed, or none
last_pending(data, done) ==
    LET pending == { i \in 1..Len(data) : PyInt(data[i].ID) \notin done }
    IN IF pending = {} THEN [found |-> FALSE, idx |-> 0]
       ELSE [found |-> TRUE,
             idx |-> (CHOOSE i \in pending : \A j \in pending : i >= j) - 1]

first_pending(data, done) ==
    LET pending == { i \in 1..Len(data) : PyInt(data[i].ID) \notin done }
    IN IF pending = {} THEN [found |-> FALSE, idx |-> 0]
       ELSE [found |-> TRUE,
             idx |-> (CHOOSE i \in pending : \A j \in pending : i <= j) - 1]

(***************************************************************************)
(* Initial states.                                                         *)
(***************************************************************************)
MappingTables ==
    { [i \in DOMAIN f |-> [id |-> i - 1, Mixed_is |-> f[i]]] :
          f \in UNION { [1..n -> {"A", "B"}] : n \in 0..MaxN } }

MappingFiles == {NoMapping, CorruptMapping} \cup { MappingWith(t) : t \in MappingTables }

FreshProcess == { [seed |-> e, pos |-> 0] : e \in EntropySeeds }

NoSheet == [exists |-> FALSE, cols |-> {}, rows |-> <<>>]
BlankSheet == [exists |-> TRUE, cols |-> {}, rows |-> <<>>]
HeaderOnlySheet == [exists |-> TRUE, cols |-> RecordCols, rows |-> <<>>]
NoSampleIdSheet ==
    [exists |-> TRUE, cols |-> {"annotator", "notes"},
     rows |-> << [c \in {"annotator", "notes"} |->
                    IF c = "annotator" THEN PyStr("Chef_Mario") ELSE PyStr("old")] >>]

Sheets == {NoSheet, BlankSheet, HeaderOnlySheet, NoSampleIdSheet}

\* the data files of the deployments whose sessions Spec follows
Carbonara == [title |-> "Carbonara", ce |-> PyStr(JsonCarbonaraCE), mixed |-> PyStr(JsonCarbonaraMixed)]
Risotto == [title |-> "Risotto", ce |-> PyStr(NotJson), mixed |-> PyStr(JsonRisotto)]
Deployments ==
    { [exists |-> FALSE, rows |-> <<>>],
      [exists |-> TRUE, rows |-> <<>>],
      [exists |-> TRUE, rows |-> <<Carbonara>>],
      [exists |-> TRUE, rows |-> <<Carbonara, Risotto>>] }

NoFrame == DataFrame({}, <<>>)
NoRecord == [c \in {} |-> PyNone]

InitSessions ==
    /\ session_state = [s \in Sessions |-> NoState]
    /\ pc = [s \in Sessions |-> "idle"]
    /\ df_existing = [s \in Sessions |-> NoFrame]
    /\ new_record = [s \in Sessions |-> NoRecord]
    /\ view = [s \in Sessions |-> LoginView("")]
    /\ clock = 0

InitProcess ==
    /\ cache = [cached |-> FALSE, value |-> <<>>]
    /\ run = NoRun
    /\ runs = 0
    /\ writes = 0

InitLoad ==
    /\ dataFile \in DataFiles
    /\ mappingFile \in MappingFiles
    /\ rng \in FreshProcess
    /\ InitProcess
    /\ sheet = BlankSheet
    /\ InitSessions

Init ==
    /\ dataFile \in Deployments
    /\ mappingFile = NoMapping
    /\ rng = [seed |-> 0, pos |-> 0]
    /\ InitProcess
    /\ sheet \in Sheets
    /\ InitSessions

(***************************************************************************)
(* SpecLoad: the executions of load_source_data.                           *)
(***************************************************************************)
\* a script run of a logged-in session reaches line 91
LoadSourceData ==
    /\ ~cache.cached
    /\ CallLoadSourceData
    /\ UNCHANGED uiVars

\* "Clear cache" of the Streamlit menu
ClearCache ==
    /\ cache.cached
    /\ cache' = [cached |-> FALSE, value |-> <<>>]
    /\ UNCHANGED <<dataFile, mappingFile, rng, run, runs, writes>>
    /\ UNCHANGED uiVars

\* the server process is started again
Restart ==
    /\ runs > 0
    /\ cache' = [cached |-> FALSE, value |-> <<>>]
    /\ rng' \in FreshProcess
    /\ UNCHANGED <<dataFile, mappingFile, run, runs, writes>>
    /\ UNCHANGED uiVars

\* the operator replaces the data file
ReplaceDataFile ==
    /\ runs < MaxRuns
    /\ dataFile' \in DataFiles \ {dataFile}
    /\ UNCHANGED <<mappingFile, rng, cache, run, runs, writes>>
    /\ UNCHANGED uiVars

NextLoad == LoadSourceData \/ ClearCache \/ Restart \/ ReplaceDataFile

SpecLoad == InitLoad /\ [][NextLoad]_vars

(***************************************************************************)
(* Spec: the script runs of the sessions.  Each action is the run a widget *)
(* event starts, followed by the run st.rerun() starts.                    *)
(***************************************************************************)
logged_in(s) == has(session_state[s], "annotator_name")

\* the widgets of the main page can be pressed once a run has drawn them
MainPageShown(s) == logged_in(s) /\ pc[s] = "idle" /\ view[s].page = "main"

SetSession(s, r) ==
    /\ session_state' = [session_state EXCEPT ![s] = r.st]
    /\ view' = [view EXCEPT ![s] = r.view]

\* what a run shows when it ends without st.rerun()
shown(pre, msg) == [st |-> pre.st, view |-> [pre.view EXCEPT !.msg = msg]]

\* lines 29-32: "Start Evaluation" with a name selected
Login(s, name) ==
    /\ ~logged_in(s)
    /\ pc[s] = "idle"
    /\ CallLoadSourceData
    /\ SetSession(s, main_run(set(session_state[s], "annotator_name", name),
                              cache'.value, sheet, ""))
    /\ UNCHANGED <<sheet, clock, pc, df_existing, new_record>>

\* lines 33-35: "Start Evaluation" with no name selected
LoginWithoutName(s) ==
    /\ ~logged_in(s)
    /\ view' = [view EXCEPT ![s] = LoginView("")]
    /\ UNCHANGED <<sheet, clock, session_state, pc, df_existing, new_record>>
    /\ UNCHANGED loadVars

\* a run with no widget pressed
Rerun_clearing_sheet(s) ==
    /\ pc[s] = "idle"
    /\ IF logged_in(s)
       THEN /\ CallLoadSourceData
            /\ SetSession(s, main_run(session_state[s], cache'.value, sheet, ""))
       ELSE /\ view' = [view EXCEPT ![s] = LoginView("")]
            /\ UNCHANGED session_state
            /\ UNCHANGED loadVars
    /\ sheet' = BlankSheet
    /\ UNCHANGED <<clock, pc, df_existing, new_record>>

Rerun(s) ==
    /\ pc[s] = "idle"
    /\ IF logged_in(s)
       THEN /\ CallLoadSourceData
            /\ SetSession(s, main_run(session_state[s], cache'.value, sheet, ""))
       ELSE /\ view' = [view EXCEPT ![s] = LoginView("")]
            /\ UNCHANGED session_state
            /\ UNCHANGED loadVars
    /\ UNCHANGED <<sheet, clock, pc, df_existing, new_record>>

\* lines 154-156; the button is drawn before the progress bar and the dropdown
Logout(s) ==
    /\ logged_in(s)
    /\ pc[s] = "idle"
    /\ view[s].page \in {"main", "progress_failed", "no_data", "select_failed"}
    /\ CallLoadSourceData
    /\ session_state' = [session_state EXCEPT ![s] = del(@, "annotator_name")]
    /\ view' = [view EXCEPT ![s] = LoginView("")]
    /\ UNCHANGED <<sheet, clock, pc, df_existing, new_record>>

\* lines 174-180: another option picked in the dropdown
Navigate(s, new_idx) ==
    /\ MainPageShown(s)
    /\ CallLoadSourceData
    /\ LET data == cache'.value
           pre == main_run(session_state[s], data, sheet, "")
       IN /\ new_idx \in 0..(Len(data) - 1)
          /\ new_idx # session_state[s]["current_idx"]
          /\ SetSession(s, IF pre.view.page # "main" THEN pre
                           ELSE main_run(set(pre.st, "current_idx", new_idx), data, sheet, ""))
    /\ UNCHANGED <<sheet, clock, pc, df_existing, new_record>>

\* lines 182-187
FindMyNextPending(s) ==
    /\ MainPageShown(s)
    /\ CallLoadSourceData
    /\ LET data == cache'.value
           pre == main_run(session_state[s], data, sheet, "")
           next == first_pending(data, pre.view.completed)
       IN SetSession(s, IF pre.view.page # "main" THEN pre
                        ELSE IF next.found
                        THEN main_run(set(pre.st, "current_idx", next.idx), data, sheet, "")
                        ELSE shown(pre, "You have completed all samples!"))
    /\ UNCHANGED <<sheet, clock, pc, df_existing, new_record>>

\* lines 330-333
Prev(s) ==
    /\ MainPageShown(s)
    /\ CallLoadSourceData
    /\ LET data == cache'.value
           pre == main_run(session_state[s], data, sheet, "")
       IN SetSession(s, IF pre.view.page # "main" THEN pre
                        ELSE IF pre.st["current_idx"] > 0
                        THEN main_run(set(pre.st, "current_idx", pre.st["current_idx"] - 1),
                                      data, sheet, "")
                        ELSE shown(pre, ""))
    /\ UNCHANGED <<sheet, clock, pc, df_existing, new_record>>

\* lines 335-337
Next_(s) ==
    /\ MainPageShown(s)
    /\ CallLoadSourceData
    /\ LET data == cache'.value
           pre == main_run(session_state[s], data, sheet, "")
       IN SetSession(s, IF pre.view.page # "main" THEN pre
                        ELSE main_run(go_next(pre.st, data), data, sheet, ""))
    /\ UNCHANGED <<sheet, clock, pc, df_existing, new_record>>

\* lines 294-320 up to the conn.read of save_to_google_sheet (line 111)
Submit(s, d) ==
    /\ MainPageShown(s)
    /\ CallLoadSourceData
    /\ LET data == cache'.value
           pre == main_run(session_state[s], data, sheet, "")
       IN IF pre.view.page # "main"
          THEN /\ SetSession(s, pre)
               /\ UNCHANGED <<clock, pc, df_existing, new_record>>
          ELSE IF ~all_filled(d)
          THEN /\ SetSession(s, shown(pre, "Please fill all comparison fields."))
               /\ UNCHANGED <<clock, pc, df_existing, new_record>>
          ELSE /\ clock < MaxSubmits
               /\ SetSession(s, shown(pre, "Saving to Google Sheets..."))
               /\ new_record' = [new_record EXCEPT ![s] =
                      record(pre.st["annotator_name"], current_pair(pre.st, data), d, clock)]
               /\ df_existing' = [df_existing EXCEPT ![s] = get_google_sheet_data(sheet)]
               /\ clock' = clock + 1
               /\ pc' = [pc EXCEPT ![s] = "saving"]
    /\ UNCHANGED sheet

\* lines 112-120 and 322-325: conn.update, go_next and the rerun
SaveToGoogleSheet(s) ==
    /\ pc[s] = "saving"
    /\ sheet' = conn_update(sheet, df_combined(df_existing[s], new_record[s]))
    /\ SetSession(s, main_run(go_next(session_state[s], cache.value), cache.value, sheet', ""))
    /\ pc' = [pc EXCEPT ![s] = "idle"]
    /\ df_existing' = [df_existing EXCEPT ![s] = NoFrame]
    /\ new_record' = [new_record EXCEPT ![s] = NoRecord]
    /\ UNCHANGED clock
    /\ UNCHANGED loadVars

Next ==
    \/ \E s \in Sessions, name \in Selected : Login(s, name)
    \/ \E s \in Sessions : LoginWithoutName(s)
    \/ \E s \in Sessions : Rerun(s)
    \/ \E s \in Sessions : Logout(s)
    \/ \E s \in Sessions, j \in 0..(MaxN - 1) : Navigate(s, j)
    \/ \E s \in Sessions : FindMyNextPending(s)
    \/ \E s \in Sessions : Prev(s)
    \/ \E s \in Sessions : Next_(s)
    \/ \E s \in Sessions, d \in Drafts : Submit(s, d)
    \/ \E s \in Sessions : SaveToGoogleSheet(s)

Spec == Init /\ [][Next]_vars

(***************************************************************************)
(* Properties of load_source_data, checked under SpecLoad.                 *)
(***************************************************************************)
\* the persisted assignment of a sample id, if the mapping file has one
Assigned(id) ==
    /\ mappingFile.readable
    /\ \E j \in DOMAIN mappingFile.table : mappingFile.table[j].id = id

MixedIs(id) ==
    LET j == CHOOSE k \in DOMAIN mappingFile.table : mappingFile.table[k].id = id
    IN mappingFile.table[j].Mixed_is

\* the two parsed outputs of the row a prepared pair was built from
MixedOutput(i) == parse(run.df[i].mixed)
CrossEntropyOutput(i) == parse(run.df[i].ce)

\* C1. Blinding consistency: every prepared pair holds the Mixed output in
\* exactly one of A and B and the Cross-Entropy output in the other, and the
\* persisted Mixed_is of its id is "A" exactly when A is the Mixed output
\* (stated for the runs that leave a readable mapping file).
BlindingConsistency ==
    (cache.cached /\ mappingFile.readable) =>
        \A i \in DOMAIN cache.value :
            LET p == cache.value[i]
            IN /\ \/ (p.A = MixedOutput(i) /\ p.B = CrossEntropyOutput(i))
                  \/ (p.A = CrossEntropyOutput(i) /\ p.B = MixedOutput(i))
               /\ Assigned(p.ID)
               /\ (MixedIs(p.ID) = "A") <=> (p.A = MixedOutput(i))

\* C2. Idempotence against persistence: a run that finds the mapping file
\* does not consult the random generator and arranges every pair as the
\* stored table says.
GenerationSkippedWhenMappingExists ==
    (run.ran /\ run.existed) =>
        /\ run.rng_calls = 0
        /\ cache.cached =>
              \A i \in DOMAIN cache.value :
                  /\ Assigned(cache.value[i].ID)
                  /\ cache.value[i].A =
                        IF MixedIs(cache.value[i].ID) = "A"
                        THEN MixedOutput(i) ELSE CrossEntropyOutput(i)

\* C3. Write-once mapping: once the mapping file exists no step changes it,
\* whatever the size of the data file, and it is written at most once.
WriteOnceMapping ==
    /\ [][mappingFile.exists => mappingFile' = mappingFile]_vars
    /\ [](writes <= 1)

\* C3 witness: a run on a data file of another size than the one the mapping
\* was written for has left the mapping as the first write made it.
LaterRunKeptMapping ==
    /\ run.ran /\ run.existed /\ ~run.wrote
    /\ run.rng_calls > 0
    /\ writes = 1
    /\ Len(run.df) # Len(mappingFile.table)

\* C9. Corrupt mapping is fatal: a run on a non-empty data file that finds an
\* unreadable mapping file returns nothing and draws nothing.
CorruptMappingIsFatal ==
    (run.ran /\ run.existed /\ ~run.readable /\ Len(run.df) > 0) =>
        (~cache.cached /\ run.rng_calls = 0)

\* the assignments of seed 42, from numpy: rand() gives 0.3745, 0.9507,
\* 0.7320, 0.5987, 0.1560, 0.1560, 0.0581, 0.8662
Seed42Assignments == <<"A", "B", "B", "B", "A", "A", "A", "B">>

\* C10. Determinism: every generation over n samples, in whatever process and
\* after whatever earlier runs, draws the first n assignments of seed 42, so
\* the mapping it writes and the arrangement of its pairs are the same too.
Determinism ==
    (run.ran /\ run.rng_calls > 0) =>
        LET n == Len(run.df)
        IN /\ run.mixedA = [i \in 1..n |-> Seed42Assignments[i] = "A"]
           /\ run.wrote =>
                 mappingFile.table =
                     [i \in 1..n |-> [id |-> i - 1, Mixed_is |-> Seed42Assignments[i]]]
           /\ cache.cached =>
                 \A i \in 1..n :
                     /\ cache.value[i].A =
                           IF Seed42Assignments[i] = "A"
                           THEN MixedOutput(i) ELSE CrossEntropyOutput(i)
                     /\ cache.value[i].B =
                           IF Seed42Assignments[i] = "A"
                           THEN CrossEntropyOutput(i) ELSE MixedOutput(i)

\* C10 witness: a generation with no mapping file present, over at least two
\* samples, in a process that already ran load_source_data or was restarted.
GeneratedAgainWithoutMapping ==
    /\ run.ran /\ run.wrote
    /\ Len(run.df) >= 2
    /\ runs >= 2

(***************************************************************************)
(* Properties of the sessions and the sheet, checked under Spec.           *)
(***************************************************************************)
Choices == {PyStr("A"), PyStr("B"), PyStr("Tie")}
PrefCols == {"pref_ingredients", "pref_numbers", "pref_procedure", "pref_overall"}

\* session s ends its save in this step: conn.update has returned
Saved(s) == pc[s] = "saving" /\ pc'[s] = "idle"

\* the rows of the sheet that carry the timestamp t of a record built here
RowsStamped(sh, t) ==
    { i \in 1..Len(sh.rows) : "timestamp" \in sh.cols /\ sh.rows[i]["timestamp"] = PyInt(t) }

\* the rows of the sheet with this annotator and this sample id
RowsOf(sh, annotator, sample_id) ==
    { i \in 1..Len(sh.rows) :
         /\ "annotator" \in sh.cols /\ "sample_id" \in sh.cols
         /\ sh.rows[i]["annotator"] = annotator
         /\ sh.rows[i]["sample_id"] = sample_id }

\* C4. Lost update: a save writes back the table it read plus its own row,
\* whatever the sheet holds by then, so the rows other sessions stored
\* between its read and its write are gone (last writer wins on the table).
LastWriterWins ==
    [][\A s \in Sessions :
          Saved(s) =>
              /\ Len(sheet'.rows) = Len(df_existing[s].rows) + 1
              /\ \A i \in 1..Len(df_existing[s].rows) : \A c \in df_existing[s].cols :
                     sheet'.rows[i][c] = df_existing[s].rows[i][c]
              /\ \A c \in RecordCols :
                     sheet'.rows[Len(sheet'.rows)][c] = cell(new_record[s][c])]_vars

\* C4 witness: two annotators each built a record, both saves have returned,
\* and the sheet holds the later writer's row only.
LostUpdate ==
    /\ clock = 2
    /\ \A s \in Sessions : pc[s] = "idle" /\ logged_in(s)
    /\ session_state["s1"]["annotator_name"] # session_state["s2"]["annotator_name"]
    /\ \E t \in {0, 1} : RowsStamped(sheet, t) = {} /\ RowsStamped(sheet, 1 - t) # {}

\* C5. Append-only and duplicate tolerance: a save during which no other
\* session wrote keeps every stored row, in order, adds its row at the end,
\* raises the number of rows of its (annotator, sample_id) by one, and the
\* completed set the annotator is shown next contains the sample id.
AppendOnly ==
    [][\A s \in Sessions :
          (Saved(s) /\ df_existing[s] = get_google_sheet_data(sheet)) =>
              LET rec == new_record[s]
              IN /\ Len(sheet'.rows) = Len(sheet.rows) + 1
                 /\ \A i \in 1..Len(sheet.rows) : \A c \in sheet.cols :
                        sheet'.rows[i][c] = sheet.rows[i][c]
                 /\ \A c \in RecordCols :
                        sheet'.rows[Len(sheet'.rows)][c] = cell(rec[c])
                 /\ Cardinality(RowsOf(sheet', rec["annotator"], rec["sample_id"]))
                        = Cardinality(RowsOf(sheet, rec["annotator"], rec["sample_id"])) + 1
                 /\ rec["sample_id"] \in view'[s].completed]_vars

\* C5 witness: the same annotator saved the same sample twice, one save after
\* the other; both rows are stored and the sample is in the completed set.
DuplicateKept ==
    \E s \in Sessions :
        /\ logged_in(s) /\ pc[s] = "idle"
        /\ \E id \in view[s].completed :
               Cardinality(RowsOf(sheet, PyStr(session_state[s]["annotator_name"]), id)) = 2

\* all four comparisons answered
AllFourSet(d) == \A f \in PrefFields : d[f] \in Choices

CompleteRow(r) ==
    /\ RecordCols \subseteq DOMAIN r
    /\ \A c \in PrefCols : r[c] \in Choices
    /\ \A c \in {"annotator", "sample_id", "recipe_title", "timestamp"} : r[c] # NaN

\* the run started by the submit button reaches the form
FormDrawn(s) == main_run(session_state[s], cache'.value, sheet, "").view.page = "main"

\* the step is a run of session s in which the submit handler (line 296) ran:
\* it shows the validation error or it starts a save
SubmitHandled(s) ==
    /\ MainPageShown(s)
    /\ \/ pc'[s] = "saving"
       \/ view'[s] # view[s] /\ view'[s].msg = "Please fill all comparison fields."

\* C6. Validation gating: a submission with a comparison unset stores nothing
\* and hands nothing to save; one with all four set hands exactly one record
\* to save; and every change of the sheet is one complete row added to the
\* table the writer read.
ValidationGating ==
    [][/\ \A s \in Sessions :
              SubmitHandled(s) =>
                  \A d \in Drafts :
                      Submit(s, d) =>
                          /\ sheet' = sheet
                          /\ ~AllFourSet(d) => (pc'[s] = "idle" /\ new_record'[s] = NoRecord)
                          /\ (AllFourSet(d) /\ FormDrawn(s)) =>
                                (pc'[s] = "saving" /\ CompleteRow(new_record'[s]))
       /\ sheet' # sheet =>
              \E s \in Sessions :
                  /\ Saved(s)
                  /\ Len(sheet'.rows) = Len(df_existing[s].rows) + 1
                  /\ CompleteRow(sheet'.rows[Len(sheet'.rows)])]_vars

\* C6 witness: a submission with a comparison unset was rejected and the
\* sheet, which already holds one accepted record, holds nothing more.
RejectedAfterAccepted ==
    \E s \in Sessions :
        /\ view[s].msg = "Please fill all comparison fields."
        /\ pc[s] = "idle"
        /\ RowsStamped(sheet, 0) # {}
        /\ Len(sheet.rows) = 1

\* the step is a script run of session s that leaves it on a page for which
\* the sheet was read: every action changes the state of its own session only
ReadsProgress(s) ==
    /\ \/ session_state'[s] # session_state[s]
       \/ view'[s] # view[s]
       \/ pc'[s] # pc[s]
    /\ has(session_state'[s], "annotator_name")
    /\ sheet'.exists

\* the distinct sample ids of the rows of annotator u
SampleIdsOf(sh, u) ==
    { sh.rows[i]["sample_id"] :
        i \in { j \in 1..Len(sh.rows) :
                  /\ "annotator" \in sh.cols /\ "sample_id" \in sh.cols
                  /\ sh.rows[j]["annotator"] = PyStr(u) } }

\* C7. Progress correctness: the completed set a page run computes is the set
\* of distinct sample ids of the rows of the logged-in annotator.
ProgressCorrectness ==
    [][\A s \in Sessions :
          ReadsProgress(s) =>
              view'[s].completed = SampleIdsOf(sheet', session_state'[s]["annotator_name"])]_vars

\* C7 witness: the sheet holds a record submitted by another annotator for a
\* sample that is not in the completed set the session computed from this
\* sheet, and the session has a completed sample of its own.
OthersRowsNotCounted ==
    \E s \in Sessions :
        /\ logged_in(s) /\ view[s].page = "main"
        /\ \E id \in view[s].completed : id.t = "int"
        /\ view[s].completed = SampleIdsOf(sheet, session_state[s]["annotator_name"])
        /\ \E i \in 1..Len(sheet.rows) :
               /\ sheet.rows[i]["annotator"] # PyStr(session_state[s]["annotator_name"])
               /\ sheet.rows[i]["timestamp"] # NaN
               /\ sheet.rows[i]["sample_id"] \notin view[s].completed

\* a store that is missing, empty, or without one of the two columns
Degenerate(sh) ==
    \/ ~sh.exists
    \/ Len(sh.rows) = 0
    \/ "sample_id" \notin sh.cols
    \/ "annotator" \notin sh.cols

\* C8. Progress degradation: over a missing, empty or malformed store the
\* page run of a logged-in session does not fail and shows nothing completed.
ProgressDegradesToEmpty ==
    \A s \in Sessions :
        (logged_in(s) /\ Degenerate(sheet)) =>
            (view[s].page # "read_failed" /\ view[s].completed = {})

\* the cursor of a session
Cursor(st) == st["current_idx"]

\* the step is a press of "Find My Next Pending" in session s whose run gets
\* as far as the button
FindPressed(s) ==
    /\ MainPageShown(s)
    /\ pc'[s] = "idle"
    /\ sheet' = sheet
    /\ view'[s].page = "main"
    /\ \A o \in Sessions \ {s} : session_state'[o] = session_state[o] /\ view'[o] = view[o]
    /\ FindMyNextPending(s)

\* the step leaves session s on the first position, in dataset order, whose
\* sample id the annotator has not completed, or, with nothing pending, where
\* it was and with the all-complete message
OnFirstPending(s) ==
    LET data == cache'.value
        done == SampleIdsOf(sheet, session_state[s]["annotator_name"])
        pending == { i \in 0..(Len(data) - 1) : PyInt(data[i + 1].ID) \notin done }
        idx == Cursor(session_state'[s])
    IN IF pending # {}
       THEN /\ idx \in pending
            /\ \A j \in pending : idx <= j
            /\ view'[s].msg # "You have completed all samples!"
       ELSE /\ idx = Cursor(session_state[s])
            /\ view'[s].msg = "You have completed all samples!"

\* C11. First pending: a press of "Find My Next Pending" leaves the cursor on
\* the first position, in dataset order, whose sample id is not in the
\* completed set of the annotator; with every sample id completed the cursor
\* stays where it was and the all-complete message is shown.  Stated as: a
\* step that ends anywhere else is not a press of the button.
FirstPending ==
    [][\A s \in Sessions :
          (logged_in(s) /\ has(session_state'[s], "current_idx") /\ ~OnFirstPending(s))
              => ~FindPressed(s)]_vars

\* C11 witness: both samples of a two-sample dataset are completed by the
\* annotator, who is told so with the cursor still on the last sample.
AllCompleteReported ==
    \E s \in Sessions :
        /\ logged_in(s) /\ pc[s] = "idle"
        /\ view[s].msg = "You have completed all samples!"
        /\ Len(cache.value) = 2
        /\ view[s].completed = {PyInt(0), PyInt(1)}
        /\ Cursor(session_state[s]) = 1

\* a raw field that json.loads rejects
Unparseable(val) == val.t = "str" /\ ~json_loads(val.s).ok

\* the error placeholder for a raw string
IsErrorPlaceholder(out, raw) ==
    /\ out.t = "dict"
    /\ Len(out.d.ingredients) = 1
    /\ out.d.instructions = <<raw>>

\* C12. Parse tolerance: every pair is prepared whatever its raw fields are,
\* and the slot of a raw field that cannot be parsed holds the placeholder with
\* one ingredient entry that signals the error and the raw string as the only
\* instruction.
ParseTolerance ==
    cache.cached =>
        /\ Len(cache.value) = Len(dataFile.rows) \/ run.df # dataFile.rows
        /\ \A i \in DOMAIN cache.value :
               /\ Unparseable(run.df[i].ce) =>
                      \E out \in {cache.value[i].A, cache.value[i].B} :
                          IsErrorPlaceholder(out, run.df[i].ce.s)
               /\ Unparseable(run.df[i].mixed) =>
                      \E out \in {cache.value[i].A, cache.value[i].B} :
                          IsErrorPlaceholder(out, run.df[i].mixed.s)

\* the step is a run of session s whose submit handler built a record
RecordBuilt(s) == pc[s] = "idle" /\ pc'[s] = "saving"

\* the stored form of a selection of error tags
Serialized(tags) == IF Len(tags) = 0 THEN PyStr("None") ELSE PyStr(join(";", tags))

\* C13. Error-tag serialization: the record of an accepted submission holds,
\* for each version, the selected tags joined by ";" or, with no tag selected,
\* the string "None".
ErrorTagSerialization ==
    [][\A s \in Sessions :
          RecordBuilt(s) =>
              \A d \in Drafts :
                  Submit(s, d) =>
                      /\ new_record'[s]["A_errors"] = Serialized(d.ae)
                      /\ new_record'[s]["B_errors"] = Serialized(d.be)]_vars

\* C14. Store frame: a step that is not the end of the save of an accepted
\* submission (login, logout, Prev, Next, the dropdown, Find My Next Pending,
\* a rejected submission, a plain page run, the read of a save) leaves the
\* sheet as it is.
StoreFrame ==
    [][(\A s \in Sessions : ~Saved(s)) => sheet' = sheet]_vars

\* C14 witness: the sheet holds the one record ever built; since it was stored
\* its annotator has moved back from the sample the save led to, and the other
\* session has logged in, looked at the pages and logged out.
BrowsedAfterSave ==
    /\ clock = 1 /\ Len(sheet.rows) = 1 /\ RowsStamped(sheet, 0) = {1}
    /\ Len(cache.value) = 2
    /\ \E s \in Sessions :
           /\ logged_in(s) /\ pc[s] = "idle"
           /\ sheet.rows[1]["annotator"] = PyStr(session_state[s]["annotator_name"])
           /\ sheet.rows[1]["sample_id"] = PyInt(0)
           /\ Cursor(session_state[s]) = 0
           /\ \A o \in Sessions \ {s} :
                  ~logged_in(o) /\ has(session_state[o], "current_idx")
                      /\ Cursor(session_state[o]) = 1

\* the preference fields a message names
FieldsNamed(msg) ==
    { f \in PrefFields :
        \/ f = "p_ing"  /\ msg \in {"Missing: ingredients", "Missing: ingredients, numbers, procedure, overall"}
        \/ f = "p_num"  /\ msg \in {"Missing: numbers", "Missing: ingredients, numbers, procedure, overall"}
        \/ f = "p_proc" /\ msg \in {"Missing: procedure", "Missing: ingredients, numbers, procedure, overall"}
        \/ f = "p_all"  /\ msg \in {"Missing: overall", "Missing: ingredients, numbers, procedure, overall"} }

\* the step is a run of session s that ends with a validation error shown
Rejected(s) ==
    /\ MainPageShown(s)
    /\ pc'[s] = "idle"
    /\ view'[s].msg \notin {"", "You have completed all samples!", "Saving to Google Sheets..."}

\* C15. Aggregated validation error: the error a rejected submission shows
\* names exactly the preference fields the draft leaves unset.
AggregatedValidationError ==
    [][\A s \in Sessions :
          Rejected(s) =>
              \A d \in Drafts :
                  Submit(s, d) =>
                      FieldsNamed(view'[s].msg) = { f \in PrefFields : d[f] \notin Choices }]_vars

\* the sample id of the pair a session is on
Displayed(st) == PyInt(cache.value[Cursor(st) + 1].ID)

\* the step is a script run of session s that ends with the main page drawn
MainPageDrawn(s) ==
    /\ \/ session_state'[s] # session_state[s]
       \/ view'[s] # view[s]
       \/ pc'[s] # pc[s]
    /\ has(session_state'[s], "annotator_name")
    /\ view'[s].page = "main"

\* C16. Duplicate flagged, not prevented: a page run shows the warning exactly
\* when the sheet it read holds a row of the annotator for the sample
\* displayed; a submission with all four comparisons set made under the
\* warning is accepted for that sample; and its save adds the row to the rows
\* the sheet already had for that annotator and sample.
DuplicateFlaggedNotPrevented ==
    [][\A s \in Sessions :
          /\ MainPageDrawn(s) =>
                (view'[s].warning <=>
                    RowsOf(sheet', PyStr(session_state'[s]["annotator_name"]),
                           Displayed(session_state'[s])) # {})
          /\ (SubmitHandled(s) /\ view'[s].warning) =>
                \A d \in Drafts :
                    (Submit(s, d) /\ AllFourSet(d)) =>
                        /\ RecordBuilt(s)
                        /\ new_record'[s]["sample_id"] = Displayed(session_state[s])
          /\ (Saved(s) /\ view[s].warning) =>
                LET rec == new_record[s]
                    last == Len(sheet'.rows)
                IN /\ last \in RowsOf(sheet', rec["annotator"], rec["sample_id"])
                   /\ Cardinality(RowsOf(sheet', rec["annotator"], rec["sample_id"]))
                         = 1 + Cardinality(RowsOf(df_existing[s], rec["annotator"], rec["sample_id"]))]_vars

\* C16 witness: the annotator was shown the warning for a sample the sheet
\* holds a row of theirs for, submitted again, and the record is on its way.
DuplicateAccepted ==
    \E s \in Sessions :
        /\ pc[s] = "saving"
        /\ view[s].warning
        /\ RowsOf(sheet, new_record[s]["annotator"], new_record[s]["sample_id"]) # {}

\* C17. Cursor stays in range: whenever a session has a cursor over a loaded,
\* non-empty dataset of n samples, the cursor is one of 0..n-1.
CursorInRange ==
    \A s \in Sessions :
        (cache.cached /\ Len(cache.value) > 0 /\ has(session_state[s], "current_idx")) =>
            Cursor(session_state[s]) \in 0..(Len(cache.value) - 1)

\* C17 witness: on a two-sample dataset the annotator is on the last sample,
\* which they have evaluated while the first is still pending: the step after
\* the save found no next sample to move to.
CursorKeptAtLastSample ==
    \E s \in Sessions :
        /\ logged_in(s) /\ pc[s] = "idle" /\ view[s].page = "main"
        /\ Len(cache.value) = 2
        /\ Cursor(session_state[s]) = 1
        /\ view[s].warning
        /\ PyInt(0) \notin view[s].completed

\* C18. Cursor movement on submit: the save of an accepted submission ends
\* with the cursor one position further, or where it was on the last sample;
\* building the record and rejecting a submission leave the cursor alone.
CursorMovementOnSubmit ==
    [][\A s \in Sessions :
          /\ Saved(s) =>
                Cursor(session_state'[s]) =
                    IF Cursor(session_state[s]) = Len(cache.value) - 1
                    THEN Cursor(session_state[s])
                    ELSE Cursor(session_state[s]) + 1
          /\ RecordBuilt(s) => Cursor(session_state'[s]) = Cursor(session_state[s])
          /\ Rejected(s) => Cursor(session_state'[s]) = Cursor(session_state[s])]_vars

\* C18 witness: both samples of a two-sample dataset were submitted in order
\* by one annotator, whose cursor went from the first to the last sample and
\* stayed there.
AdvancedThenHeld ==
    \E s \in Sessions :
        /\ logged_in(s) /\ pc[s] = "idle" /\ view[s].page = "main" /\ view[s].msg = ""
        /\ Len(cache.value) = 2
        /\ Cursor(session_state[s]) = 1
        /\ clock = 2 /\ Len(sheet.rows) >= 2
        /\ LET u == PyStr(session_state[s]["annotator_name"])
               last == Len(sheet.rows)
           IN /\ sheet.rows[last - 1]["annotator"] = u
              /\ sheet.rows[last - 1]["sample_id"] = PyInt(0)
              /\ sheet.rows[last - 1]["timestamp"] = PyInt(0)
              /\ sheet.rows[last]["annotator"] = u
              /\ sheet.rows[last]["sample_id"] = PyInt(1)
              /\ sheet.rows[last]["timestamp"] = PyInt(1)

\* the record a session is saving is its annotator's, for the pair it is on
Attributed(s) ==
    LET st == session_state[s]
        rec == new_record[s]
        pair == cache.value[Cursor(st) + 1]
    IN /\ logged_in(s)
       /\ st["annotator_name"] \in Roster
       /\ rec["annotator"] = PyStr(st["annotator_name"])
       /\ pair.ID \in 0..(Len(cache.value) - 1)
       /\ rec["sample_id"] = PyInt(pair.ID)
       /\ rec["recipe_title"] = PyStr(pair.title)

\* C19. Record attribution: a record is built and stored only for a session
\* with a logged-in annotator of the roster; it carries that annotator and the
\* id (one of 0..n-1) and title of the pair at the session's cursor; and the
\* row a save adds to the sheet carries the same three values.
RecordAttribution ==
    /\ [](\A s \in Sessions : pc[s] = "saving" => Attributed(s))
    /\ [][sheet' # sheet =>
             \E s \in Sessions :
                 /\ Saved(s)
                 /\ Attributed(s)
                 /\ \A c \in {"annotator", "sample_id", "recipe_title"} :
                        sheet'.rows[Len(sheet'.rows)][c] = new_record[s][c]]_vars

\* C19 witness: while one annotator is logged in on the first sample, another
\* one's record for the second sample is being saved.
RecordOfSecondSample ==
    \E s \in Sessions :
        /\ pc[s] = "saving"
        /\ new_record[s]["sample_id"] = PyInt(1)
        /\ new_record[s]["recipe_title"] = PyStr("Risotto")
        /\ new_record[s]["annotator"] = PyStr("Chef_Luigi")
        /\ \E o \in Sessions \ {s} :
               /\ logged_in(o) /\ session_state[o]["annotator_name"] = "Chef_Mario"
               /\ view[o].page = "main"
               /\ Cursor(session_state[o]) = 0

====
